---- MODULE Spec2Model ----
(***************************************************************************)
(* State-machine model of the Whiteboard controller of src/js/app.js.      *)
(*                                                                         *)
(* The raster is one row of pixels (the code treats y exactly as it treats *)
(* x, so only x is kept).  A Snapshot is the data URL of the raster.  The  *)
(* decode of a Snapshot (Image.onload) is a step of its own, and decodes   *)
(* in flight may complete in any order.                                    *)
(***************************************************************************)
EXTENDS Integers, Sequences, FiniteSets, TLC

\* ---------------------------------------------------------------- bounds
MaxHist == 2     \* cap on |history| + |redoHistory|
MaxPending == 2  \* cap on the number of decodes in flight
MaxEvents == 7   \* number of events handled in one run
MaxEventsRestore == 12   \* the same in a run of SpecRestore

\* ------------------------------------------------------------- constants
Transparent == "transparent"      \* a cleared pixel
DefaultStyle == "#000000"         \* strokeStyle of a fresh 2d context
EraserStyle == "#f0f0f0"
PickerColors == {"#000000", "#ff0000"}
Tools == {"pencil", "eraser", "text"}
Texts == {"", "Hi"}
NoInput == [open |-> FALSE]       \* this.textInput = null
NoPen == -1                       \* the current path has no sub-path
EmptyPath == [pen |-> NoPen, px |-> {}]

\* the raster of the model: two pixel columns, of which a canvas of width w
\* holds the first w; the canvas lies at one of two offsets in the viewport
Grid == {0, 1}
Widths == {1, 2}
Offsets == {0, 1}
BlankCanvas == [p \in Grid |-> Transparent]

VARIABLES
    canvas,       \* pixels of the raster
    width,        \* canvas.width
    rect,         \* rect.left of canvas.getBoundingClientRect()
    strokeStyle,  \* ctx.strokeStyle
    path,         \* the context's current path: [pen, px]
    isDrawing,
    currentTool,
    history,
    redoHistory,
    textInput,
    overlays,     \* number of text inputs appended to document.body
    pending,      \* Images whose onload has not fired yet, in request order
    nev,          \* number of events handled so far
    last,         \* the handler that ran last
    \* observers of the run (they never influence the controller)
    gStroke,      \* a stroke begun with a non-text tool is not yet ended
    sk,           \* strokes completed, while the run consists of strokes only
    sinceUndo,    \* "none", or "clean"/"dirty": a mutation since the last undo
    ur,           \* an undo, then a redo, and the canvas before the undo
    tp,           \* the steps of one text placement, or of a replacement
    rz,           \* a resize and what the canvas showed before it
    pk,           \* the colour picked last, and a stroke begun with the pencil
    rq,           \* the restore requested last, while the run is undo, redo, resize, onload
    st,           \* a mutation committed while a restore of undo or redo was in flight
    kk            \* k undos and then redos, each decoded before the next click

prog == <<canvas, width, rect, strokeStyle, path, isDrawing, currentTool,
          history, redoHistory, textInput, overlays, pending>>
obs == <<gStroke, sk, sinceUndo, ur, tp, rz, pk, rq, st, kk>>
vars == <<canvas, width, rect, strokeStyle, path, isDrawing, currentTool,
          history, redoHistory, textInput, overlays, pending, nev, last,
          gStroke, sk, sinceUndo, ur, tp, rz, pk, rq, st, kk>>

\* ------------------------------------------------------ drawing surface
InCanvas(p, w) == p >= 0 /\ p < w

\* canvas.toDataURL(): the pixels of the raster, in order
toDataURL(c, w) == [w |-> w, data |-> [i \in 1 .. w |-> c[i - 1]]]

\* ctx.clearRect(0, 0, canvas.width, canvas.height)
clearRect(c) == [p \in Grid |-> Transparent]

\* ctx.drawImage(img, 0, 0) on a raster of w pixels
drawImage(c, img, w) ==
    [p \in Grid |->
        IF InCanvas(p, w) /\ InCanvas(p, img.w) /\ img.data[p + 1] # Transparent
        THEN img.data[p + 1]
        ELSE c[p]]

\* pixels covered by the segment from p to q (a zero-length segment with
\* butt caps covers nothing)
Segment(p, q) ==
    IF p = q THEN {}
    ELSE {r \in Grid : (p <= r /\ r <= q) \/ (q <= r /\ r <= p)}

\* ctx.beginPath(); ctx.moveTo(x, y)
moveTo(x) == [pen |-> x, px |-> {}]

\* ctx.lineTo(x, y): on a path without sub-path it acts as moveTo
lineTo(pa, q) ==
    IF pa.pen = NoPen THEN [pen |-> q, px |-> pa.px]
    ELSE [pen |-> q, px |-> pa.px \cup Segment(pa.pen, q)]

\* ctx.stroke(): paints the whole current path in the current strokeStyle
stroke(c, pa, style, w) ==
    [p \in Grid |-> IF p \in pa.px /\ InCanvas(p, w) THEN style ELSE c[p]]

\* ctx.fillText(value, x, y) with fillStyle color
fillText(c, x, color, w) ==
    [p \in Grid |-> IF p = x /\ InCanvas(p, w) THEN color ELSE c[p]]

\* ---------------------------------------------------------- controller
\* saveState() that forgets to empty redoHistory
saveState_keepRedo(hs, c, w) ==
    [h |-> Append(hs.h, toDataURL(c, w)), r |-> hs.r]

\* saveState() on the stacks hs = [h, r]
saveState(hs, c, w) == [h |-> Append(hs.h, toDataURL(c, w)), r |-> <<>>]

\* canvas-relative x used by commitText for an overlay at style.left
textX(left, rectLeft) == left - rectLeft

\* commitText() that does not test the value: an empty text renders
\* nothing and is committed all the same
commitTextOnce_anyValue(s, w, rectLeft) ==
    IF s.textInput.open
    THEN LET c == IF s.textInput.value # ""
                  THEN fillText(s.canvas, textX(s.textInput.left, rectLeft),
                                s.textInput.color, w)
                  ELSE s.canvas
         IN  [canvas |-> c, hs |-> saveState(s.hs, c, w),
              textInput |-> s.textInput, overlays |-> s.overlays]
    ELSE s

\* one run of commitText() on s = [canvas, hs, textInput, overlays]
commitTextOnce(s, w, rectLeft) ==
    IF s.textInput.open /\ s.textInput.value # ""
    THEN LET c == fillText(s.canvas, textX(s.textInput.left, rectLeft),
                           s.textInput.color, w)
         IN  [canvas |-> c, hs |-> saveState(s.hs, c, w),
              textInput |-> s.textInput, overlays |-> s.overlays]
    ELSE s

\* commitText(); blurOnRemove: the browser raises blur on the focused
\* input while it is being removed, which re-enters commitText
commitText(s, blurOnRemove, w, rectLeft) ==
    LET s1 == commitTextOnce(s, w, rectLeft)
        s2 == IF s1.textInput.open /\ blurOnRemove
              THEN commitTextOnce(s1, w, rectLeft) ELSE s1
    IN  [s2 EXCEPT !.textInput = NoInput,
                   !.overlays = IF s2.textInput.open
                                THEN s2.overlays - 1 ELSE s2.overlays]

Cur == [canvas |-> canvas, hs |-> [h |-> history, r |-> redoHistory],
        textInput |-> textInput, overlays |-> overlays]

Fits(hs) == Len(hs.h) + Len(hs.r) <= MaxHist

\* ------------------------------------------------------------ observers
UrIdle == [ph |-> "idle", c0 |-> BlankCanvas, one |-> FALSE, ord |-> FALSE]
TpIdle == [ph |-> "idle", h0 |-> 0, ne |-> FALSE]
RzIdle == [ph |-> "idle", shown |-> BlankCanvas, w0 |-> 0, idx |-> 0]

\* the event commits a mutation: a stroke ends, a non-empty text is
\* committed, or a clear is confirmed
Mutates(name) ==
    \/ name \in {"mouseup", "mouseout"} /\ gStroke
    \/ name = "clearYes"
    \/ /\ name \in {"enter", "blur"} \/ (name = "mousedown" /\ currentTool = "text")
       /\ textInput.open
       /\ textInput.value # ""

NextStroke(name) ==
    CASE name = "mousedown" -> gStroke \/ currentTool # "text"
      [] name \in {"mouseup", "mouseout"} -> FALSE
      [] OTHER -> gStroke

NextSk(name) ==
    IF sk < 0 THEN -1
    ELSE CASE name = "mousedown" ->
                 IF currentTool = "text" \/ gStroke THEN -1 ELSE sk
           [] name \in {"mouseup", "mouseout"} ->
                 IF gStroke THEN sk + 1 ELSE sk
           [] name \in {"mousemove", "tool", "color"} -> sk
           [] OTHER -> -1

NextSinceUndo(name) ==
    IF name = "undo" /\ Len(history) > 0 THEN "clean"
    ELSE IF Mutates(name) /\ sinceUndo # "none" THEN "dirty"
    ELSE sinceUndo

NextUr(name) ==
    CASE name = "undo" /\ Len(history) > 0 ->
             [ph |-> "undo", c0 |-> canvas,
              one |-> sk = 1 /\ ~gStroke /\ canvas # BlankCanvas,
              ord |-> pending = <<>>]
      [] name = "redo" /\ ur.ph = "undo" ->
             [ur EXCEPT !.ph = "redo", !.ord = ur.ord /\ pending = <<>>]
      [] name \in {"onload", "onerror"} -> ur
      [] OTHER -> UrIdle

NextTp(name) ==
    CASE name = "mousedown" /\ currentTool = "text" /\ ~textInput.open
              /\ ~isDrawing ->
             [ph |-> "down", h0 |-> Len(history), ne |-> FALSE]
      [] name = "mousedown" /\ currentTool = "text" /\ textInput.open ->
             [ph |-> "redown", h0 |-> Len(history),
              ne |-> textInput.value # ""]
      [] name = "mouseup" /\ tp.ph = "down" -> [tp EXCEPT !.ph = "up"]
      [] name = "type" /\ tp.ph \in {"up", "typed"} /\ textInput'.value # "" ->
             [tp EXCEPT !.ph = "typed"]
      [] name = "enter" /\ tp.ph = "typed" -> [tp EXCEPT !.ph = "done"]
      [] OTHER -> TpIdle

\* every decode in flight is of what the canvas shows already
Settled ==
    \A j \in 1 .. Len(pending) :
        drawImage(clearRect(canvas), pending[j], width) = canvas

\* w0: the width before the resize; idx: the place of the resize's Image
\* among the decodes in flight
NextRz(name, i) ==
    CASE name = "resize" /\ ~isDrawing /\ Settled ->
             [ph |-> IF Len(history) > 0 THEN "req" ELSE "blank",
              shown |-> canvas, w0 |-> width, idx |-> Len(pending')]
      [] name = "onload" /\ rz.ph = "req" ->
             IF i = rz.idx THEN [rz EXCEPT !.ph = "done", !.idx = 0]
             ELSE IF i < rz.idx THEN [rz EXCEPT !.idx = rz.idx - 1]
             ELSE rz
      [] OTHER -> RzIdle

\* picked: the colour picked last, "none" before the first pick, "off" once
\* the run has had another event than colour picks, tool selections and
\* pointer events; pen: the stroke in progress was begun with the pencil
\* after a pick, and no tool was selected since
PkIdle == [picked |-> "none", pen |-> FALSE]
PkOff == [picked |-> "off", pen |-> FALSE]

NextPk(name) ==
    IF pk.picked = "off" THEN pk
    ELSE CASE name = "color" -> [pk EXCEPT !.picked = strokeStyle']
           [] name = "mousedown" ->
                  [pk EXCEPT !.pen = (currentTool = "pencil"
                                      /\ pk.picked # "none")]
           [] name \in {"mouseup", "mouseout", "tool"} ->
                  [pk EXCEPT !.pen = FALSE]
           [] name = "mousemove" -> pk
           [] OTHER -> PkOff

\* by: the handler that issued the request; img: the Snapshot it asked for;
\* multi: another decode was in flight when it was issued
RqIdle == [by |-> "none", img |-> toDataURL(BlankCanvas, 0), multi |-> FALSE]

NextRq(name) ==
    CASE name = "undo" ->
             IF Len(history) > 0
             THEN [by |-> "undo", img |-> history[Len(history)],
                   multi |-> pending # <<>>]
             ELSE rq
      [] name = "redo" ->
             IF Len(redoHistory) > 0
             THEN [by |-> "redo", img |-> redoHistory[Len(redoHistory)],
                   multi |-> pending # <<>>]
             ELSE rq
      [] name = "resize" ->
             IF Len(history) > 0
             THEN [by |-> "resize", img |-> history[Len(history)],
                   multi |-> pending # <<>>]
             ELSE RqIdle
      [] name = "onload" -> rq
      [] OTHER -> RqIdle

\* "armed": a mutation was committed while the one restore in flight was
\* that of the undo or redo before it; "hit": that restore has completed
NextSt(name) ==
    IF Mutates(name) /\ Len(pending) = 1 /\ rq.by \in {"undo", "redo"}
    THEN "armed"
    ELSE IF name = "onload" /\ st = "armed" THEN "hit"
    ELSE "idle"

\* h0, r0, c0: the stacks and the canvas before the first undo; same: every
\* Snapshot undone so far was taken at the width the canvas has
KkIdle == [ph |-> "idle", k |-> 0, j |-> 0, h0 |-> <<>>, r0 |-> <<>>,
           c0 |-> BlankCanvas, same |-> FALSE]

NextKk(name) ==
    CASE name = "undo" ->
             IF Len(history) > 0 /\ pending = <<>>
             THEN IF kk.ph = "undos"
                  THEN [kk EXCEPT !.k = kk.k + 1,
                                  !.same = kk.same
                                           /\ history[Len(history)].w = width]
                  ELSE [ph |-> "undos", k |-> 1, j |-> 0, h0 |-> history,
                        r0 |-> redoHistory, c0 |-> canvas,
                        same |-> history[Len(history)].w = width]
             ELSE KkIdle
      [] name = "redo" ->
             IF /\ Len(redoHistory) > 0
                /\ pending = <<>>
                /\ kk.ph \in {"undos", "redos"}
                /\ kk.j < kk.k
             THEN [kk EXCEPT !.ph = "redos", !.j = kk.j + 1]
             ELSE KkIdle
      [] name = "onload" -> kk
      [] OTHER -> KkIdle

Watched == {"undo", "redo", "clearYes", "clearNo", "save", "enter", "blur",
            "mouseup", "mouseout", "onerror"}

\* the handler that ran last; a mouseout that follows a mouseup is told apart
NextLast(name) ==
    IF name = "mouseout" /\ last = "mouseup" THEN "mouseup,mouseout"
    ELSE IF name \in Watched THEN name ELSE "other"

\* an event is taken from the queue and handled by the handler called name;
\* i is the Image of an onload
Observe(name, i) ==
    /\ nev < MaxEvents
    /\ nev' = nev + 1
    /\ last' = NextLast(name)
    /\ gStroke' = NextStroke(name)
    /\ sk' = NextSk(name)
    /\ sinceUndo' = NextSinceUndo(name)
    /\ ur' = NextUr(name)
    /\ tp' = NextTp(name)
    /\ rz' = NextRz(name, i)
    /\ pk' = NextPk(name)
    /\ rq' = NextRq(name)
    /\ st' = NextSt(name)
    /\ kk' = NextKk(name)

Event(name) == Observe(name, 0)

\* ---------------------------------------------------------------- state
\* the state after construction, with the count of events at n; the canvas
\* has the full width of the raster until a resize
Start(n) ==
    /\ canvas = BlankCanvas
    /\ width = 2
    /\ rect \in Offsets
    /\ strokeStyle = DefaultStyle
    /\ path = EmptyPath
    /\ isDrawing = FALSE
    /\ currentTool = "pencil"
    /\ history = <<>>
    /\ redoHistory = <<>>
    /\ textInput = NoInput
    /\ overlays = 0
    /\ pending = <<>>
    /\ nev = n
    /\ last = "other"
    /\ gStroke = FALSE
    /\ sk = 0
    /\ sinceUndo = "none"
    /\ ur = UrIdle
    /\ tp = TpIdle
    /\ rz = RzIdle
    /\ pk = PkIdle
    /\ rq = RqIdle
    /\ st = "idle"
    /\ kk = KkIdle

Init == Start(0)

\* a run of up to MaxEventsRestore events
InitRestore == Start(MaxEvents - MaxEventsRestore)

\* redrawFromData(dataUrl): the Image starts decoding
redrawFromData(dataUrl) ==
    /\ Len(pending) < MaxPending
    /\ pending' = Append(pending, dataUrl)

\* img.onload that draws the Image without clearing the canvas first
onload_noClear(i) ==
    /\ canvas' = drawImage(canvas, pending[i], width)
    /\ pending' = [j \in 1 .. (Len(pending) - 1) |->
                      IF j < i THEN pending[j] ELSE pending[j + 1]]
    /\ UNCHANGED <<width, rect, strokeStyle, path, isDrawing, currentTool,
                   history, redoHistory, textInput, overlays>>
    /\ Observe("onload", i)

\* img.onload of the i-th Image in flight
onload(i) ==
    /\ canvas' = drawImage(clearRect(canvas), pending[i], width)
    /\ pending' = [j \in 1 .. (Len(pending) - 1) |->
                      IF j < i THEN pending[j] ELSE pending[j + 1]]
    /\ UNCHANGED <<width, rect, strokeStyle, path, isDrawing, currentTool,
                   history, redoHistory, textInput, overlays>>
    /\ Observe("onload", i)

\* an error handler that clears the canvas
onerror_clears(i) ==
    /\ canvas' = clearRect(canvas)
    /\ pending' = [j \in 1 .. (Len(pending) - 1) |->
                      IF j < i THEN pending[j] ELSE pending[j + 1]]
    /\ UNCHANGED <<width, rect, strokeStyle, path, isDrawing, currentTool,
                   history, redoHistory, textInput, overlays>>
    /\ Observe("onerror", i)

\* the decode of the i-th Image in flight fails: the Image has no error
\* handler and its onload never fires
onerror(i) ==
    /\ pending' = [j \in 1 .. (Len(pending) - 1) |->
                      IF j < i THEN pending[j] ELSE pending[j + 1]]
    /\ UNCHANGED <<canvas, width, rect, strokeStyle, path, isDrawing,
                   currentTool, history, redoHistory, textInput, overlays>>
    /\ Observe("onerror", i)

\* redrawFromHistory()
redrawFromHistory ==
    IF Len(history) > 0
    THEN redrawFromData(history[Len(history)])
    ELSE UNCHANGED pending

\* resizeCanvas with the new rect.width: assigning canvas.width clears the
\* raster and resets the context
resizeCanvas(w) ==
    /\ width' = w
    /\ canvas' = BlankCanvas
    /\ strokeStyle' = DefaultStyle
    /\ path' = EmptyPath
    /\ redrawFromHistory
    /\ UNCHANGED <<rect, isDrawing, currentTool, history, redoHistory,
                   textInput, overlays>>
    /\ Event("resize")

\* addTextInput(x, y) that does not commit the overlay that is open
addTextInput_keepsOld(x, blurOnRemove) ==
    /\ UNCHANGED <<canvas, history, redoHistory>>
    /\ textInput' = [open |-> TRUE, left |-> x, color |-> strokeStyle,
                     value |-> ""]
    /\ overlays' = overlays + 1

\* addTextInput(x, y)
addTextInput(x, blurOnRemove) ==
    LET s == IF textInput.open
             THEN commitText(Cur, blurOnRemove, width, rect) ELSE Cur
    IN  /\ Fits(s.hs)
        /\ canvas' = s.canvas
        /\ history' = s.hs.h
        /\ redoHistory' = s.hs.r
        /\ textInput' = [open |-> TRUE, left |-> x, color |-> strokeStyle,
                         value |-> ""]
        /\ overlays' = s.overlays + 1

\* mousedown at clientX
startDrawing(clientX, blurOnRemove) ==
    LET x == clientX - rect
    IN  /\ Event("mousedown")
        /\ isDrawing' = TRUE
        /\ IF currentTool = "text"
           THEN /\ addTextInput(x, blurOnRemove)
                /\ UNCHANGED path
           ELSE /\ path' = moveTo(x)
                /\ UNCHANGED <<canvas, history, redoHistory, textInput,
                               overlays>>
        /\ UNCHANGED <<width, rect, strokeStyle, currentTool, pending>>

\* strokeStyle used by draw()
drawStyle(tool, style) == IF tool = "eraser" THEN EraserStyle ELSE style

\* mousemove at clientX
draw(clientX) ==
    LET x == clientX - rect
    IN  /\ Event("mousemove")
        /\ IF isDrawing
           THEN /\ strokeStyle' = drawStyle(currentTool, strokeStyle)
                /\ path' = lineTo(path, x)
                /\ canvas' = stroke(canvas, path', strokeStyle', width)
           ELSE UNCHANGED <<strokeStyle, path, canvas>>
        /\ UNCHANGED <<width, rect, isDrawing, currentTool, history,
                       redoHistory, textInput, overlays, pending>>

\* stopDrawing() without its isDrawing guard
stopDrawing_unguarded ==
    /\ LET hs == saveState([h |-> history, r |-> redoHistory], canvas, width)
       IN  /\ Fits(hs)
           /\ isDrawing' = FALSE
           /\ history' = hs.h
           /\ redoHistory' = hs.r
    /\ UNCHANGED <<canvas, width, rect, strokeStyle, path, currentTool,
                   textInput, overlays, pending>>

\* stopDrawing(), the handler of mouseup and of mouseout
stopDrawing ==
    /\ IF isDrawing
       THEN LET hs == saveState([h |-> history, r |-> redoHistory],
                                canvas, width)
            IN  /\ Fits(hs)
                /\ isDrawing' = FALSE
                /\ history' = hs.h
                /\ redoHistory' = hs.r
       ELSE UNCHANGED <<isDrawing, history, redoHistory>>
    /\ UNCHANGED <<canvas, width, rect, strokeStyle, path, currentTool,
                   textInput, overlays, pending>>

mouseup == Event("mouseup") /\ stopDrawing
mouseout == Event("mouseout") /\ stopDrawing

\* click on a .tool element
selectTool(t) ==
    /\ Event("tool")
    /\ currentTool' = t
    /\ UNCHANGED <<canvas, width, rect, strokeStyle, path, isDrawing,
                   history, redoHistory, textInput, overlays, pending>>

\* change of #colorPicker
colorChange(v) ==
    /\ strokeStyle' = v
    /\ Event("color")
    /\ UNCHANGED <<canvas, width, rect, path, isDrawing, currentTool,
                   history, redoHistory, textInput, overlays, pending>>

\* the user types into the overlay
typeText(v) ==
    /\ textInput.open
    /\ textInput' = [textInput EXCEPT !.value = v]
    /\ Event("type")
    /\ UNCHANGED <<canvas, width, rect, strokeStyle, path, isDrawing,
                   currentTool, history, redoHistory, overlays, pending>>

\* keydown Enter in the overlay
keydownEnter(blurOnRemove) ==
    /\ textInput.open
    /\ Event("enter")
    /\ LET s == commitText(Cur, blurOnRemove, width, rect)
       IN  /\ Fits(s.hs)
           /\ canvas' = s.canvas
           /\ history' = s.hs.h
           /\ redoHistory' = s.hs.r
           /\ textInput' = s.textInput
           /\ overlays' = s.overlays
    /\ UNCHANGED <<width, rect, strokeStyle, path, isDrawing, currentTool,
                   pending>>

\* blur of the overlay (the input has lost the focus when it is removed)
blur ==
    /\ textInput.open
    /\ Event("blur")
    /\ LET s == commitText(Cur, FALSE, width, rect)
       IN  /\ Fits(s.hs)
           /\ canvas' = s.canvas
           /\ history' = s.hs.h
           /\ redoHistory' = s.hs.r
           /\ textInput' = s.textInput
           /\ overlays' = s.overlays
    /\ UNCHANGED <<width, rect, strokeStyle, path, isDrawing, currentTool,
                   pending>>

\* redo() that does not push the canvas onto history
redo_dropsCanvas ==
    /\ Event("redo")
    /\ IF Len(redoHistory) > 0
       THEN /\ redoHistory' = SubSeq(redoHistory, 1, Len(redoHistory) - 1)
            /\ redrawFromData(redoHistory[Len(redoHistory)])
            /\ UNCHANGED history
       ELSE UNCHANGED <<history, redoHistory, pending>>
    /\ UNCHANGED <<canvas, width, rect, strokeStyle, path, isDrawing,
                   currentTool, textInput, overlays>>

\* undo() that pushes onto redoHistory before it tests history.length
undo_pushFirst ==
    /\ Event("undo")
    /\ redoHistory' = Append(redoHistory, toDataURL(canvas, width))
    /\ IF Len(history) > 0
       THEN /\ history' = SubSeq(history, 1, Len(history) - 1)
            /\ redrawFromData(history[Len(history)])
       ELSE UNCHANGED <<history, pending>>
    /\ UNCHANGED <<canvas, width, rect, strokeStyle, path, isDrawing,
                   currentTool, textInput, overlays>>

undo ==
    /\ Event("undo")
    /\ IF Len(history) > 0
       THEN /\ redoHistory' = Append(redoHistory, toDataURL(canvas, width))
            /\ history' = SubSeq(history, 1, Len(history) - 1)
            /\ redrawFromData(history[Len(history)])
       ELSE UNCHANGED <<history, redoHistory, pending>>
    /\ UNCHANGED <<canvas, width, rect, strokeStyle, path, isDrawing,
                   currentTool, textInput, overlays>>

redo ==
    /\ Event("redo")
    /\ IF Len(redoHistory) > 0
       THEN /\ history' = Append(history, toDataURL(canvas, width))
            /\ redoHistory' = SubSeq(redoHistory, 1, Len(redoHistory) - 1)
            /\ redrawFromData(redoHistory[Len(redoHistory)])
       ELSE UNCHANGED <<history, redoHistory, pending>>
    /\ UNCHANGED <<canvas, width, rect, strokeStyle, path, isDrawing,
                   currentTool, textInput, overlays>>

\* clearCanvas() that ignores the answer of confirm()
clearCanvas_noConfirm(confirmed) ==
    /\ Event(IF confirmed THEN "clearYes" ELSE "clearNo")
    /\ LET c == clearRect(canvas)
           hs == saveState([h |-> history, r |-> redoHistory], c, width)
       IN  /\ Fits(hs)
           /\ canvas' = c
           /\ history' = hs.h
           /\ redoHistory' = hs.r
    /\ UNCHANGED <<width, rect, strokeStyle, path, isDrawing, currentTool,
                   textInput, overlays, pending>>

\* clearCanvas() with the answer of confirm()
clearCanvas(confirmed) ==
    /\ Event(IF confirmed THEN "clearYes" ELSE "clearNo")
    /\ IF confirmed
       THEN LET c == clearRect(canvas)
                hs == saveState([h |-> history, r |-> redoHistory], c, width)
            IN  /\ Fits(hs)
                /\ canvas' = c
                /\ history' = hs.h
                /\ redoHistory' = hs.r
       ELSE UNCHANGED <<canvas, history, redoHistory>>
    /\ UNCHANGED <<width, rect, strokeStyle, path, isDrawing, currentTool,
                   textInput, overlays, pending>>

\* saveCanvas() that also commits a Snapshot
saveCanvas_commits ==
    /\ Event("save")
    /\ LET hs == saveState([h |-> history, r |-> redoHistory], canvas, width)
       IN  /\ Fits(hs)
           /\ history' = hs.h
           /\ redoHistory' = hs.r
    /\ UNCHANGED <<canvas, width, rect, strokeStyle, path, isDrawing,
                   currentTool, textInput, overlays, pending>>

\* saveCanvas(): the link's href is the data URL of the canvas as it is
saveCanvas ==
    /\ Event("save")
    /\ UNCHANGED prog

Next ==
    \/ \E w \in Widths : resizeCanvas(w)
    \/ \E i \in 1 .. Len(pending) : onload(i)
    \/ \E cx \in rect .. (rect + width - 1), b \in BOOLEAN : startDrawing(cx, b)
    \/ \E cx \in rect .. (rect + width - 1) : draw(cx)
    \/ mouseup
    \/ mouseout
    \/ \E t \in Tools : selectTool(t)
    \/ \E v \in PickerColors : colorChange(v)
    \/ \E v \in Texts : typeText(v)
    \/ \E b \in BOOLEAN : keydownEnter(b)
    \/ blur
    \/ undo
    \/ redo
    \/ \E a \in BOOLEAN : clearCanvas(a)
    \/ saveCanvas

Spec == Init /\ [][Next]_vars

\* drawing with the tool selected at the start, clear, resize, undo and
\* redo, with decodes that complete or fail before the next event is handled
NextRestore ==
    \/ \E i \in 1 .. Len(pending) : onload(i)
    \/ \E i \in 1 .. Len(pending) : onerror(i)
    \/ /\ pending = <<>>
       /\ \/ \E w \in Widths : resizeCanvas(w)
          \/ \E cx \in rect .. (rect + width - 1) : startDrawing(cx, FALSE)
          \/ \E cx \in rect .. (rect + width - 1) : draw(cx)
          \/ mouseup
          \/ undo
          \/ redo
          \/ \E a \in BOOLEAN : clearCanvas(a)

SpecRestore == InitRestore /\ [][NextRestore]_vars

TypeOK ==
    /\ canvas \in [Grid -> PickerColors \cup {EraserStyle, Transparent}]
    /\ isDrawing \in BOOLEAN
    /\ currentTool \in Tools
    /\ Len(history) + Len(redoHistory) <= MaxHist
    /\ Len(pending) <= MaxPending

\* ================================================================ claims
\* the rasters c and d show the same on the pixels that buffers of width v
\* and of width w have in common
SameShown(c, d, v, w) ==
    \A p \in Grid : (InCanvas(p, v) /\ InCanvas(p, w)) => c[p] = d[p]

\* C1: after N completed strokes from the initial state (pointer-down with a
\* non-text tool, moves, then pointer-up and/or pointer-leave), History has
\* exactly N entries and RedoHistory is empty.
C1_StrokesCommitOnce == sk >= 0 => Len(history) = sk /\ redoHistory = <<>>
\* two strokes are complete, the second one ended by a pointer-up that a
\* pointer-leave followed
C1_Witness == sk = 2 /\ last = "mouseup,mouseout" /\ canvas # BlankCanvas

\* C2: from a blank canvas with empty History, one stroke, then undo (decode
\* applied) gives a blank canvas and RedoHistory of length 1; then redo (decode
\* applied) shows the stroke again with History of length 1 and RedoHistory
\* empty.
C2_UndoRedoOneStroke ==
    /\ (ur.one /\ ur.ord /\ ur.ph = "undo" /\ pending = <<>>)
          => (canvas = BlankCanvas /\ Len(redoHistory) = 1)
    /\ (ur.one /\ ur.ord /\ ur.ph = "redo" /\ pending = <<>>)
          => (canvas = ur.c0 /\ Len(history) = 1 /\ Len(redoHistory) = 0)

\* C3: undo followed immediately by redo leaves the canvas, once the restores
\* have been applied, in the pixel state it had before the undo.
C3_UndoRedoRoundTrip == (ur.ph = "redo" /\ pending = <<>>) => canvas = ur.c0

\* C4: a mutation committed after an undo leaves RedoHistory empty, so a redo
\* issued next changes neither the canvas nor the stacks; RedoHistory is
\* non-empty only when no mutation was committed since the last undo.
C4_MutationClearsRedo ==
    /\ [](sinceUndo # "clean" => redoHistory = <<>>)
    /\ [][(last' = "redo" /\ sinceUndo = "dirty")
            => UNCHANGED <<canvas, history, redoHistory, pending>>]_vars
\* a redo was issued after an undo and a later mutation
C4_Witness == sinceUndo = "dirty" /\ last = "redo" /\ Len(history) = 2

\* C5: undo() while History is empty leaves the canvas and both stacks
\* unchanged and issues no restore request.
C5_UndoEmptyNoop ==
    [][(last' = "undo" /\ history = <<>>)
         => UNCHANGED <<canvas, history, redoHistory, pending>>]_vars
\* undo ran on an empty History (an undo that popped leaves RedoHistory
\* non-empty) while the canvas showed something
C5_Witness ==
    last = "undo" /\ history = <<>> /\ redoHistory = <<>>
    /\ canvas # BlankCanvas

\* C6: a complete text placement (pointer-down with the text tool, pointer-up,
\* typing, Enter) removes the overlay and makes History one longer than it was
\* before the pointer-down.
C6_TextPlacementCommitsOnce ==
    tp.ph = "done" => (~textInput.open /\ Len(history) = tp.h0 + 1)

\* C7: committed text is painted at the canvas-relative position at which the
\* text edit was opened, in the colour of the overlay.
C7_TextAtOpenPosition ==
    [][(last' \in {"enter", "blur"} /\ textInput.open /\ textInput.value # "")
         => canvas'[textInput.left] = textInput.color]_vars

\* C8: a declined clear leaves canvas, History and RedoHistory unchanged; an
\* accepted clear blanks the canvas, makes History one longer and empties
\* RedoHistory.
C8_Clear ==
    [][/\ last' = "clearNo" => UNCHANGED <<canvas, history, redoHistory>>
       /\ last' = "clearYes" =>
             /\ canvas' = BlankCanvas
             /\ Len(history') = Len(history) + 1
             /\ redoHistory' = <<>>]_vars
\* a clear was accepted after an undo
C8_Witness ==
    last = "clearYes" /\ sinceUndo = "dirty" /\ canvas = BlankCanvas
    /\ Len(history) = 2

\* C9: a resize with History non-empty and no stroke in progress shows, once
\* its decode completes, the drawing shown before the resize; with History
\* empty the resized canvas is blank.
C9_ResizeKeepsDrawing ==
    /\ rz.ph = "done" => SameShown(canvas, rz.shown, rz.w0, width)
    /\ rz.ph = "blank" => canvas = BlankCanvas

\* C10: export leaves canvas, History, RedoHistory, the stroke-session flag,
\* the active text edit and the tool selection unchanged.
C10_ExportFrame ==
    [][last' = "save"
         => UNCHANGED <<canvas, history, redoHistory, isDrawing, textInput,
                        overlays, currentTool>>]_vars
\* an export ran while there was history, a stroke and a text edit
C10_Witness ==
    last = "save" /\ history # <<>> /\ isDrawing /\ textInput.open

\* C11: a pointer-down with the text tool opens the overlay and begins no
\* stroke session: isDrawing stays false, a pointer-move that follows it
\* leaves the canvas as it is, and a pointer-up that follows it commits no
\* Snapshot.
C11_TextDownBeginsNoStroke ==
    /\ [](tp.ph = "down" => (textInput.open /\ ~isDrawing))
    /\ [][(/\ tp.ph = "down"
           /\ last' = "other"
           /\ path'.pen # NoPen
           /\ UNCHANGED <<history, redoHistory, textInput, currentTool,
                          width, pending, isDrawing>>)
          => canvas' = canvas]_vars
    /\ [][(tp.ph = "down" /\ tp'.ph = "up") => history' = history]_vars

\* C12: the eraser forces the stroke colour to the background for its own
\* stroke only: after tool selections and strokes, what a stroke begun with
\* the pencil renders has the colour picked last in the colour picker.
C12_PencilUsesPickedColour ==
    [][(/\ pk.picked \in PickerColors
        /\ pk.pen
        /\ pk' = pk
        /\ currentTool = "pencil"
        /\ isDrawing
        /\ (path' # path \/ canvas' # canvas))
       => \A p \in path'.px : InCanvas(p, width) => canvas'[p] = pk.picked]_vars

\* C13: at most one text-edit overlay exists, and it is the one the
\* controller holds; opening a text edit while another is open commits a
\* Snapshot of the canvas if the open one is not empty, none if it is empty,
\* removes it, and leaves the new, empty overlay as the only one.
C13_OneOverlay ==
    /\ overlays <= 1
    /\ textInput.open <=> overlays = 1
    /\ tp.ph = "redown" =>
          /\ textInput.open
          /\ textInput.value = ""
          /\ IF tp.ne
             THEN /\ Len(history) > tp.h0
                  /\ history[Len(history)] = toDataURL(canvas, width)
                  /\ redoHistory = <<>>
             ELSE Len(history) = tp.h0

C13_Witness ==
    /\ tp.ph = "redown"
    /\ tp.ne
    /\ overlays = 1
    /\ canvas # BlankCanvas

\* C14: committing a text edit whose content is empty, by blur or by Enter,
\* removes the overlay and leaves the canvas pixels, History and RedoHistory
\* unchanged.
C14_EmptyTextCommitsNothing ==
    [][(last' \in {"enter", "blur"} /\ textInput.open /\ textInput.value = "")
       => /\ ~textInput'.open
          /\ overlays' = 0
          /\ UNCHANGED <<canvas, history, redoHistory>>]_vars
\* an overlay went away on blur or on Enter with nothing committed at all
C14_Witness ==
    /\ last \in {"enter", "blur"}
    /\ ~textInput.open
    /\ history = <<>>
    /\ tp.ph = "idle"
    /\ currentTool = "text"

\* a canvas of width w shows the Snapshot img: every pixel of its buffer has
\* the Snapshot's colour, and is transparent where the Snapshot has no pixel
Shows(c, img, w) ==
    \A p \in Grid :
        InCanvas(p, w) =>
            c[p] = IF InCanvas(p, img.w) THEN img.data[p + 1] ELSE Transparent

\* C15: undo() with a non-empty History pushes the Snapshot of the canvas
\* onto RedoHistory, removes the top of History and requests its restore,
\* and once that decode has completed the canvas shows the removed
\* Snapshot; redo() does the same with the two stacks exchanged.
C15_UndoRedoMoveOneSnapshot ==
    /\ [][(last' = "undo" /\ Len(history) > 0)
          => /\ history' = SubSeq(history, 1, Len(history) - 1)
             /\ redoHistory' = Append(redoHistory, toDataURL(canvas, width))
             /\ pending' = Append(pending, history[Len(history)])
             /\ canvas' = canvas]_vars
    /\ [][(last' = "redo" /\ Len(redoHistory) > 0)
          => /\ redoHistory' = SubSeq(redoHistory, 1, Len(redoHistory) - 1)
             /\ history' = Append(history, toDataURL(canvas, width))
             /\ pending' = Append(pending, redoHistory[Len(redoHistory)])
             /\ canvas' = canvas]_vars
    /\ []((rq.by \in {"undo", "redo"} /\ ~rq.multi /\ pending = <<>>)
          => Shows(canvas, rq.img, width))
\* an undo and then a redo, each decoded before the next click, the redo
\* putting an uncommitted drawing back over what the undo had restored
C15_Witness ==
    /\ rq.by = "redo"
    /\ ~rq.multi
    /\ pending = <<>>
    /\ ur.ph = "redo"
    /\ ur.ord
    /\ canvas # BlankCanvas
    /\ history # <<>>

\* C16: when several restores are requested before their decodes complete,
\* then after all of them have completed the canvas shows the Snapshot of
\* the request issued last, in whatever order the completions arrive.
C16_LastRequestWins ==
    (rq.by # "none" /\ rq.multi /\ pending = <<>>)
        => Shows(canvas, rq.img, width)

\* C18: in every reachable state with a non-empty History, an empty
\* RedoHistory, no stroke in progress and no restore decode pending, the
\* canvas shows the Snapshot on top of History.
C18_CanvasIsTopOfHistory ==
    (history # <<>> /\ redoHistory = <<>> /\ ~isDrawing /\ pending = <<>>)
        => Shows(canvas, history[Len(history)], width)

\* C19: the decode completion of a restore that undo or redo requested
\* before a later mutation was committed does not overwrite that mutation:
\* after it the canvas still shows the Snapshot the mutation put on top of
\* History.
C19_StaleRestoreKeepsMutation ==
    st = "hit" => Shows(canvas, history[Len(history)], width)

\* the Snapshots held by the stacks and by the decodes in flight
Held(h, r, q) ==
    {h[n] : n \in 1 .. Len(h)} \cup {r[n] : n \in 1 .. Len(r)}
        \cup {q[n] : n \in 1 .. Len(q)}

C20_UndosThenRedosRestoreAll ==
    /\ []((kk.ph = "redos" /\ kk.j = kk.k /\ pending = <<>>)
          => (history = kk.h0 /\ redoHistory = kk.r0 /\ canvas = kk.c0))
    /\ [][last' \in {"undo", "redo"}
          => Len(history') + Len(redoHistory')
                 = Len(history) + Len(redoHistory)]_vars

\* C20, amended: the same, provided that the Snapshots removed from History
\* by the undos were taken at the width the canvas has (a Snapshot of
\* another width comes back re-encoded at the current width).
C20_UndosThenRedosRestoreAll_SameWidth ==
    /\ []((kk.ph = "redos" /\ kk.j = kk.k /\ pending = <<>> /\ kk.same)
          => (history = kk.h0 /\ redoHistory = kk.r0 /\ canvas = kk.c0))
    /\ [][last' \in {"undo", "redo"}
          => Len(history') + Len(redoHistory')
                 = Len(history) + Len(redoHistory)]_vars
\* two undos and two redos over two different Snapshots and a third drawing
C20_Witness ==
    /\ kk.ph = "redos"
    /\ kk.k = 2
    /\ kk.j = 2
    /\ kk.same
    /\ pending = <<>>
    /\ kk.h0[1] # kk.h0[2]
    /\ canvas # BlankCanvas

====
